---- MODULE Spec2Model ----
(***************************************************************************)
(* Knowledge retrieval engine of BrightgenGeneticsSDS: the Chroma vector   *)
(* store wrapper, the knowledge loader, the multi-query retrievers and the *)
(* RAG-enhanced generation adapters (planner and chatbot).                 *)
(*                                                                         *)
(* Similarity scores are floats in the source; here they are tenths, so    *)
(* the 0.7 threshold is 7.  A passage is the record [head, tail, category] *)
(* where head stands for page_content[:100], tail for the rest of the      *)
(* content and category for metadata['category'].                          *)
(***************************************************************************)
EXTENDS Integers, Sequences, FiniteSets, TLC

VARIABLES
    coll,       \* ChromaVectorStore: the passages held by the collection, in insertion order
    dbOpen,     \* ChromaVectorStore._db is not None (the cached store handle)
    disk,       \* names of the files now under the knowledge-base directory
    kbExists,   \* the knowledge-base path exists
    lload,      \* KnowledgeLoader: what the last call made to the loader from outside did and returned
    rcall,      \* retriever: the entry-point call in progress (its arguments)
    rdone,      \* retriever: the group list the call has just produced
    adapter,    \* which enhanced adapter owns the store: "planner", "chatbot" or "none"
    config,     \* the adapter's use_rag and auto_load_knowledge flags
    ragInit,    \* the adapter's _rag_initialized flag
    agent,      \* the shared generation agent (child_log_agent, agents["dr_bloom"])
    calls       \* the adapter calls in progress, one record per caller

vars == <<coll, dbOpen, disk, kbExists, lload, rcall, rdone,
          adapter, config, ragInit, agent, calls>>
storeVars == <<coll, dbOpen>>
diskVars == <<disk, kbExists>>
loaderVars == <<coll, dbOpen, disk, kbExists, lload>>
retrieverVars == <<rcall, rdone>>
adapterVars == <<adapter, config, ragInit, agent, calls>>

----------------------------------------------------------------------------
(* Bounds *)

MaxK == 3       \* largest k a caller passes to a retrieval entry point
MaxHits == 4    \* most (doc, score) pairs the store hands back during one helper run
MaxDocs == 6      \* most passages the collection is let grow to
MaxStored == 4    \* most passages direct embed_documents calls let it grow to
MaxManual == 1    \* most manually added passages the collection is let hold

----------------------------------------------------------------------------
(* Values *)

None == -1      \* Python None for an optional int (ages are months, never negative)
NoFilter == "no_filter"

Min(a, b) == IF a < b THEN a ELSE b

Scores == {6, 7, 9}

PassageA == [head |-> "h1", tail |-> "t1", category |-> "cognitive"]
PassageB == [head |-> "h1", tail |-> "t2", category |-> "nutrition"]
PassageC == [head |-> "h2", tail |-> "t1", category |-> "nutrition"]

Ages == {None, 0, 30}
TraitLists == {<<>>, <<"focus">>}
SymptomLists == {<<>>, << <<"fever">> >>, << <<"seizure">> >>,
                 << <<"high">>, <<"fever">> >>}
Ks == 0..MaxK

\* Python truthiness of an Optional[int]: None and 0 are both falsy.
Truthy(age) == age # None /\ age # 0

\* list[:k] for k >= 0
Take(s, k) == SubSeq(s, 1, Min(k, Len(s)))

Range(s) == {s[i] : i \in DOMAIN s}

----------------------------------------------------------------------------
(* ChromaVectorStore.similarity_search_with_score *)

\* Indices of the collection entries a search with this metadata filter may return.
Matching(c, filter) ==
    {i \in DOMAIN c : filter = NoFilter \/ c[i].category = filter}

\* Can the concatenated answers be cut into nq consecutive answers of at most
\* kq entries, none naming one collection entry twice?
RECURSIVE SplitOK(_, _, _)
SplitOK(l, nq, kq) ==
    IF l = <<>> THEN TRUE
    ELSE IF nq = 0 THEN FALSE
    ELSE \E m \in 1..Min(kq, Len(l)) :
            /\ \A i, j \in 1..m : i # j => l[i][1] # l[j][1]
            /\ SplitOK(SubSeq(l, m + 1, Len(l)), nq - 1, kq)

\* What the store may hand back to nq successive searches asking for kq
\* results each, concatenated in query order: any entries of the collection
\* that satisfy the filter, in any order, with any scores; an empty answer
\* is also what the wrapper returns when the store faults.
SimilaritySearchWithScore(c, filter, nq, kq) ==
    LET raw == UNION {[1..n -> Matching(c, filter) \X Scores] :
                        n \in 0..Min(MaxHits, nq * kq)}
    IN  {[j \in DOMAIN l |-> [doc |-> c[l[j][1]], score |-> l[j][2]]] :
            l \in {x \in raw : SplitOK(x, nq, kq)}}

(* Idle values of the retriever records *)
NoCall == [entry |-> "none", traits |-> <<>>, symptoms |-> <<>>, age |-> None,
           child_traits |-> <<>>, filter |-> NoFilter, k |-> 0, query |-> <<>>]
NoGroup == [entry |-> "none", group |-> "none", k |-> 0, result |-> <<>>,
            dropped |-> <<>>, searched |-> FALSE, returned |-> 0,
            filter |-> NoFilter, content_type |-> "", failed |-> 0,
            reissued |-> 0]

(* Idle values of the adapter records *)
Callers == {1, 2}
NoAgent == [created |-> FALSE, instruction |-> <<>>]
NoConfig == [use_rag |-> FALSE, auto_load |-> FALSE]
NoResult == [kind |-> "none", keys |-> {}, rag_enhanced |-> FALSE, documents |-> 0]
NoAdapterCall == [pc |-> "idle", entry |-> "none", ready |-> FALSE,
                  retrieved |-> FALSE,
                  retrieval_raised |-> FALSE, found |-> 0, augmented |-> FALSE,
                  aug_failed |-> FALSE, plain_called |-> FALSE, orig |-> <<>>,
                  pre |-> NoAgent, post |-> NoAgent, used |-> <<>>,
                  raised |-> FALSE, overlapped |-> FALSE, rag_enhanced |-> FALSE,
                  fallback_called |-> FALSE, result |-> NoResult,
                  init_before |-> FALSE, init_after |-> FALSE,
                  empty_before |-> FALSE, auto_loaded |-> FALSE,
                  loaded_count |-> None]
NoAdapter ==
    /\ adapter = "none"
    /\ config = NoConfig
    /\ ragInit = FALSE
    /\ agent = NoAgent
    /\ calls = [c \in Callers |-> NoAdapterCall]


----------------------------------------------------------------------------
(* Knowledge base on disk and DocumentProcessor *)

\* The files that may lie under the knowledge base, in directory-listing
\* order; chunks is what loading and splitting the file yields.
AllFiles == <<
    [name |-> "guide.pdf", dir |-> "developmental_guidelines", type |-> "pdf",
     readable |-> TRUE,
     chunks |-> <<[head |-> "g1", tail |-> "x"], [head |-> "g2", tail |-> "x"]>>],
    [name |-> "scan.pdf", dir |-> "developmental_guidelines", type |-> "pdf",
     readable |-> FALSE, chunks |-> <<>>],
    [name |-> "diet.txt", dir |-> "nutrition_research", type |-> "txt",
     readable |-> TRUE, chunks |-> <<[head |-> "d1", tail |-> "x"]>>] >>

FileNames == {AllFiles[i].name : i \in DOMAIN AllFiles}
Dirs == {AllFiles[i].dir : i \in DOMAIN AllFiles}
FilePatterns == <<"pdf", "html", "htm", "txt">>

\* DocumentProcessor._extract_category_from_path
ExtractCategoryFromPath(dir) ==
    CASE dir = "developmental_guidelines" -> "developmental"
      [] dir = "nutrition_research" -> "nutrition"
      [] dir = "cognitive_behavioral" -> "cognitive_behavioral"
      [] dir = "immunity_resilience" -> "immunity_resilience"
      [] dir = "cognitive_activities" -> "cognitive_behavioral"
      [] dir = "behavioral_strategies" -> "cognitive_behavioral"
      [] OTHER -> "general"

RECURSIVE Flatten(_)
Flatten(ss) == IF ss = <<>> THEN <<>> ELSE Head(ss) \o Flatten(Tail(ss))

\* One DirectoryLoader run: the files of the directory that match the glob;
\* one unreadable file among them makes the loader raise, and the except
\* clause then drops the whole pattern.
LoadPattern(files, dir, pattern) ==
    LET matched == SelectSeq(AllFiles, LAMBDA f :
                        f.name \in files /\ f.dir = dir /\ f.type = pattern)
    IN  IF \E i \in DOMAIN matched : ~matched[i].readable
        THEN <<>>
        ELSE [i \in DOMAIN matched |->
                [file |-> matched[i], category |-> ExtractCategoryFromPath(dir)]]

\* DocumentProcessor.load_directory: the documents of every pattern, in pattern order.
LoadDirectory(files, dir) ==
    Flatten([i \in DOMAIN FilePatterns |-> LoadPattern(files, dir, FilePatterns[i])])

\* DocumentProcessor.chunk_documents: every document split into its chunks,
\* each chunk keeping the document's metadata.
ChunkDocuments(documents) ==
    Flatten([i \in DOMAIN documents |->
        [j \in DOMAIN documents[i].file.chunks |->
            [head |-> documents[i].file.chunks[j].head,
             tail |-> documents[i].file.chunks[j].tail,
             category |-> documents[i].category]]])

\* The orders in which iterdir may list the category directories.
DirOrders == {<<"developmental_guidelines", "nutrition_research">>,
              <<"nutrition_research", "developmental_guidelines">>}

\* DocumentProcessor.process_knowledge_base
ProcessKnowledgeBase(files, exists, order) ==
    IF ~exists THEN <<>>
    ELSE ChunkDocuments(Flatten([i \in DOMAIN order |-> LoadDirectory(files, order[i])]))

----------------------------------------------------------------------------
(* ChromaVectorStore: the calls the loader makes, each of which may fault *)

\* "open_fault": opening the store fails (only when no handle is cached);
\* "op_fault": the store call itself fails.
Faults == {"ok", "open_fault", "op_fault"}
FaultFits(f, open) == f = "open_fault" => ~open

\* ChromaVectorStore.db: the handle after a call made with fault f
HandleAfter(open, f) == IF f = "open_fault" THEN FALSE ELSE TRUE

\* ChromaVectorStore.get_collection_count: 0 when the call faults
CountIgnoringFault(c, f) == Len(c)
GetCollectionCount(c, f) == IF f = "ok" THEN Len(c) ELSE 0

\* ChromaVectorStore.delete_collection: empties the collection and drops the
\* cached handle; a fault leaves the collection and is raised.
DeleteCollectionKeeps(c, open, f) ==
    [coll |-> c, open |-> HandleAfter(open, f), raised |-> f # "ok"]
DeleteCollection(c, open, f) ==
    IF f = "ok" THEN [coll |-> <<>>, open |-> FALSE, raised |-> FALSE]
    ELSE [coll |-> c, open |-> HandleAfter(open, f), raised |-> TRUE]

\* ChromaVectorStore.embed_documents: nothing to do for an empty list; a
\* fault is logged and raised again.
EmbedDocumentsSwallows(c, open, documents, f) ==
    IF documents = <<>> \/ f # "ok" THEN [coll |-> c, open |-> open, raised |-> FALSE]
    ELSE [coll |-> c \o documents, open |-> TRUE, raised |-> FALSE]
EmbedDocuments(c, open, documents, f) ==
    IF documents = <<>> THEN [coll |-> c, open |-> open, raised |-> FALSE]
    ELSE IF f = "ok" THEN [coll |-> c \o documents, open |-> TRUE, raised |-> FALSE]
    ELSE [coll |-> c, open |-> HandleAfter(open, f), raised |-> TRUE]

----------------------------------------------------------------------------
(* KnowledgeLoader *)

NoLoad == [op |-> "none", force |-> FALSE, category |-> "none", raised |-> FALSE,
           ret |-> 0, before |-> <<>>, ingest_ran |-> FALSE, documents |-> <<>>,
           inserted |-> FALSE, counted |-> TRUE, repeat |-> FALSE,
           insert_failed |-> FALSE, fault |-> "ok", reset_dropped |-> None]

\* KnowledgeLoader.load_all_knowledge(force_reload), with the faults of its
\* store calls: fd delete, fc1 first count, fe embed, fc2 final count.
LoadAllRaises(c, open, files, exists, force, order, fd, fc1, fe, fc2) ==
    [coll |-> c, open |-> open,
     log |-> [NoLoad EXCEPT !.op = "load_all", !.force = force, !.before = c,
                            !.ingest_ran = TRUE, !.raised = TRUE]]
LoadAllOutcome(c, open, files, exists, force, order, fd, fc1, fe, fc2) ==
    LET del == IF force THEN DeleteCollection(c, open, fd)
               ELSE [coll |-> c, open |-> open, raised |-> FALSE]
        existing_count == GetCollectionCount(del.coll, fc1)
        open1 == HandleAfter(del.open, fc1)
        documents == ProcessKnowledgeBase(files, exists, order)
        emb == EmbedDocuments(del.coll, open1, documents, fe)
        base == [NoLoad EXCEPT !.op = "load_all", !.force = force, !.before = c,
                               !.insert_failed =
                                   /\ ~del.raised
                                   /\ ~(existing_count > 0 /\ ~force)
                                   /\ documents # <<>> /\ fe # "ok"]
    IN  IF del.raised
        THEN [coll |-> del.coll, open |-> del.open,
              log |-> [base EXCEPT !.raised = TRUE]]
        ELSE IF existing_count > 0 /\ ~force
        THEN [coll |-> del.coll, open |-> open1,
              log |-> [base EXCEPT !.ret = existing_count]]
        ELSE IF documents = <<>>
        THEN [coll |-> del.coll, open |-> open1,
              log |-> [base EXCEPT !.ingest_ran = TRUE, !.counted = (fc1 = "ok")]]
        ELSE IF emb.raised
        THEN [coll |-> emb.coll, open |-> emb.open,
              log |-> [base EXCEPT !.raised = TRUE, !.ingest_ran = TRUE,
                                   !.documents = documents]]
        ELSE [coll |-> emb.coll, open |-> HandleAfter(emb.open, fc2),
              log |-> [base EXCEPT !.ret = GetCollectionCount(emb.coll, fc2),
                                   !.ingest_ran = TRUE, !.documents = documents,
                                   !.inserted = TRUE, !.counted = (fc2 = "ok")]]

\* The faults a store call can meet, and only "ok" for a call that is not made.
FaultsOf(made, open) ==
    IF ~made THEN {"ok"} ELSE {f \in Faults : FaultFits(f, open)}

LoadAllKnowledge ==
    \E force \in BOOLEAN, order \in DirOrders :
    \E fd \in FaultsOf(force, dbOpen) :
    LET del == IF force THEN DeleteCollection(coll, dbOpen, fd)
               ELSE [coll |-> coll, open |-> dbOpen, raised |-> FALSE]
    IN
    \E fc1 \in FaultsOf(~del.raised, del.open) :
    LET embeds == /\ ~del.raised
                  /\ ~(GetCollectionCount(del.coll, fc1) > 0 /\ ~force)
                  /\ ProcessKnowledgeBase(disk, kbExists, order) # <<>>
    IN
    \E fe \in FaultsOf(embeds, HandleAfter(del.open, fc1)) :
    \E fc2 \in FaultsOf(embeds /\ fe = "ok", TRUE) :
        LET out == LoadAllOutcome(coll, dbOpen, disk, kbExists, force, order,
                                  fd, fc1, fe, fc2)
        IN  /\ Len(out.coll) <= MaxDocs
            /\ coll' = out.coll
            /\ dbOpen' = out.open
            /\ lload' = out.log
            /\ UNCHANGED <<diskVars, retrieverVars, adapterVars>>

\* KnowledgeLoader._remove_category_documents: logs a warning, deletes nothing.
RemoveCategoryDocuments(c, category) == c

\* KnowledgeLoader.load_category(category, force_reload), fe the embed fault.
LoadCategoryOutcome(c, open, files, exists, category, force, fe) ==
    LET path_exists == exists /\ \E i \in DOMAIN AllFiles :
                          AllFiles[i].name \in files /\ AllFiles[i].dir = category
        documents == LoadDirectory(files, category)
        chunked_docs == ChunkDocuments(documents)
        kept == IF force THEN RemoveCategoryDocuments(c, category) ELSE c
        emb == EmbedDocuments(kept, open, chunked_docs, fe)
        base == [NoLoad EXCEPT !.op = "load_category", !.force = force,
                               !.category = category, !.before = c,
                               !.repeat = (lload.op = "load_category"
                                           /\ lload.category = category
                                           /\ ~lload.raised /\ lload.inserted),
                               !.insert_failed =
                                   /\ path_exists /\ chunked_docs # <<>>
                                   /\ fe # "ok"]
    IN  IF ~path_exists \/ documents = <<>>
        THEN [coll |-> c, open |-> open, log |-> base]
        ELSE IF emb.raised
        THEN [coll |-> emb.coll, open |-> emb.open,
              log |-> [base EXCEPT !.raised = TRUE, !.ingest_ran = TRUE,
                                   !.documents = chunked_docs]]
        ELSE [coll |-> emb.coll, open |-> emb.open,
              log |-> [base EXCEPT !.ret = Len(chunked_docs), !.ingest_ran = TRUE,
                                   !.documents = chunked_docs,
                                   !.inserted = (chunked_docs # <<>>)]]

LoadCategory ==
    \E category \in Dirs \cup {"cognitive_behavioral"}, force \in BOOLEAN :
    \E fe \in FaultsOf(kbExists /\ ChunkDocuments(LoadDirectory(disk, category)) # <<>>,
                       dbOpen) :
        LET out == LoadCategoryOutcome(coll, dbOpen, disk, kbExists, category, force, fe)
        IN  /\ Len(out.coll) <= MaxDocs
            /\ coll' = out.coll
            /\ dbOpen' = out.open
            /\ lload' = out.log
            /\ UNCHANGED <<diskVars, retrieverVars, adapterVars>>

\* Texts a caller may hand to add_document_from_text, as the chunks the
\* splitter cuts them into: an empty text yields no chunk.
ManualTexts == {<<>>, <<[head |-> "m1", tail |-> "x"]>>}

\* DocumentProcessor.create_manual_document: the chunks of the text, each
\* carrying the metadata.
CreateManualDocument(text, category) ==
    [j \in DOMAIN text |->
        [head |-> text[j].head, tail |-> text[j].tail, category |-> category]]

\* How many passages of the collection came from text handed in by a caller.
ManuallyAdded(c) ==
    Cardinality({i \in DOMAIN c :
                    \E text \in ManualTexts : \E j \in DOMAIN text :
                        c[i].head = text[j].head})

\* KnowledgeLoader.add_document_from_text(text, title, category), fe the
\* embed fault.
AddDocumentOutcome(c, open, text, category, fe) ==
    LET documents == CreateManualDocument(text, category)
        emb == EmbedDocuments(c, open, documents, fe)
        base == [NoLoad EXCEPT !.op = "add_document", !.category = category,
                               !.before = c, !.ingest_ran = TRUE,
                               !.documents = documents,
                               !.insert_failed = (documents # <<>> /\ fe # "ok")]
    IN  IF emb.raised
        THEN [coll |-> emb.coll, open |-> emb.open,
              log |-> [base EXCEPT !.raised = TRUE]]
        ELSE [coll |-> emb.coll, open |-> emb.open,
              log |-> [base EXCEPT !.ret = Len(documents),
                                   !.inserted = (documents # <<>>)]]

AddDocumentFromText ==
    \E text \in ManualTexts, category \in {"manual"} :
    \E fe \in FaultsOf(text # <<>>, dbOpen) :
        LET out == AddDocumentOutcome(coll, dbOpen, text, category, fe)
        IN  /\ Len(out.coll) <= MaxDocs
            /\ ManuallyAdded(out.coll) <= MaxManual
            /\ coll' = out.coll
            /\ dbOpen' = out.open
            /\ lload' = out.log
            /\ UNCHANGED <<diskVars, retrieverVars, adapterVars>>

\* The operator adds or removes a file, or the whole knowledge-base directory.
EditKnowledgeBase ==
    /\ \/ \E f \in FileNames :
            /\ kbExists
            /\ disk' = IF f \in disk THEN disk \ {f} ELSE disk \cup {f}
            /\ UNCHANGED kbExists
       \/ /\ kbExists' = ~kbExists
          /\ disk' = {}
    /\ lload' = NoLoad
    /\ UNCHANGED <<storeVars, retrieverVars, adapterVars>>

InitLoader ==
    /\ coll = <<>>
    /\ dbOpen = FALSE
    /\ disk \in SUBSET FileNames
    /\ kbExists = TRUE
    /\ lload = NoLoad
    /\ rcall = NoCall
    /\ rdone = NoGroup
    /\ NoAdapter

NextLoader ==
    \/ LoadAllKnowledge
    \/ LoadCategory
    \/ AddDocumentFromText
    \/ EditKnowledgeBase

SpecLoader == InitLoader /\ [][NextLoader]_vars

TypeLoader == Len(coll) <= MaxDocs /\ dbOpen \in BOOLEAN

----------------------------------------------------------------------------
(* ChromaVectorStore called directly *)

\* ChromaVectorStore.similarity_search with fault f: the documents the store
\* hands back, or the empty list of the except clause.
SimilaritySearch(c, filter, k, f) ==
    IF f = "ok"
    THEN {[j \in DOMAIN hits |-> hits[j].doc] :
             hits \in SimilaritySearchWithScore(c, filter, 1, k)}
    ELSE {<<>>}

\* ChromaVectorStore.similarity_search_with_score with fault f.
SimilaritySearchWithScoreOrEmpty(c, filter, k, f) ==
    IF f = "ok" THEN SimilaritySearchWithScore(c, filter, 1, k) ELSE {<<>>}

\* The record of one direct store call; reset_dropped is the size of the
\* collection a delete_collection that has just returned normally removed.
StoreCall(op, f) ==
    [NoLoad EXCEPT !.op = op, !.before = coll, !.fault = f,
                   !.reset_dropped =
                       IF lload.op = "delete_collection" /\ ~lload.raised
                       THEN Len(lload.before) ELSE None]

StoreSearch ==
    \E filter \in {NoFilter, "nutrition"}, k \in 1..MaxK :
    \E f \in FaultsOf(TRUE, dbOpen) :
    \E results \in SimilaritySearch(coll, filter, k, f) :
        /\ lload' = [StoreCall("similarity_search", f) EXCEPT
                        !.documents = results, !.ret = Len(results)]
        /\ dbOpen' = HandleAfter(dbOpen, f)
        /\ UNCHANGED <<coll, diskVars, retrieverVars, adapterVars>>

StoreSearchWithScore ==
    \E filter \in {NoFilter, "nutrition"}, k \in 1..MaxK :
    \E f \in FaultsOf(TRUE, dbOpen) :
    \E results \in SimilaritySearchWithScoreOrEmpty(coll, filter, k, f) :
        /\ lload' = [StoreCall("similarity_search_with_score", f) EXCEPT
                        !.documents = [j \in DOMAIN results |-> results[j].doc],
                        !.ret = Len(results)]
        /\ dbOpen' = HandleAfter(dbOpen, f)
        /\ UNCHANGED <<coll, diskVars, retrieverVars, adapterVars>>

StoreCount ==
    \E f \in FaultsOf(TRUE, dbOpen) :
        /\ lload' = [StoreCall("get_collection_count", f) EXCEPT
                        !.ret = GetCollectionCount(coll, f)]
        /\ dbOpen' = HandleAfter(dbOpen, f)
        /\ UNCHANGED <<coll, diskVars, retrieverVars, adapterVars>>

StoreDelete ==
    \E f \in FaultsOf(TRUE, dbOpen) :
        LET out == DeleteCollection(coll, dbOpen, f)
        IN  /\ coll' = out.coll
            /\ dbOpen' = out.open
            /\ lload' = [StoreCall("delete_collection", f) EXCEPT
                            !.raised = out.raised]
            /\ UNCHANGED <<diskVars, retrieverVars, adapterVars>>

StoreEmbed ==
    \E documents \in {<<PassageA>>, <<PassageB, PassageC>>} :
    \E f \in FaultsOf(TRUE, dbOpen) :
        LET out == EmbedDocuments(coll, dbOpen, documents, f)
        IN  /\ Len(out.coll) <= MaxStored
            /\ coll' = out.coll
            /\ dbOpen' = out.open
            /\ lload' = [StoreCall("embed_documents", f) EXCEPT
                            !.raised = out.raised, !.inserted = ~out.raised]
            /\ UNCHANGED <<diskVars, retrieverVars, adapterVars>>

\* The category entry of a metadata dictionary that has no "category" key.
NoCategory == "no_category"

\* ChromaVectorStore.embed_knowledge_from_text(text, metadata): every chunk
\* of the text carries the caller's metadata as it is; metadata is modelled
\* by its category entry.
EmbedKnowledgeFromText ==
    \E text \in ManualTexts, metadata \in {NoCategory, "nutrition"} :
    \E f \in FaultsOf(text # <<>>, dbOpen) :
        LET documents == [j \in DOMAIN text |->
                            [head |-> text[j].head, tail |-> text[j].tail,
                             category |-> metadata]]
            out == EmbedDocuments(coll, dbOpen, documents, f)
        IN  /\ Len(out.coll) <= MaxStored
            /\ ManuallyAdded(out.coll) <= MaxManual
            /\ coll' = out.coll
            /\ dbOpen' = out.open
            /\ lload' = [StoreCall("embed_knowledge_from_text", f) EXCEPT
                            !.raised = out.raised, !.documents = documents,
                            !.inserted = (documents # <<>> /\ ~out.raised)]
            /\ UNCHANGED <<diskVars, retrieverVars, adapterVars>>

InitStore ==
    /\ coll = <<>>
    /\ dbOpen = FALSE
    /\ disk = {}
    /\ kbExists = TRUE
    /\ lload = NoLoad
    /\ rcall = NoCall
    /\ rdone = NoGroup
    /\ NoAdapter

NextStore ==
    \/ StoreSearch
    \/ StoreSearchWithScore
    \/ StoreCount
    \/ StoreDelete
    \/ StoreEmbed
    \/ EmbedKnowledgeFromText

SpecStore == InitStore /\ [][NextStore]_vars

ReadOperations == {"similarity_search", "similarity_search_with_score",
                   "get_collection_count"}

\* C17: when the store or the embedding call faults, similarity_search and
\* similarity_search_with_score return the empty list and
\* get_collection_count returns 0; none of the three raises, faulting or
\* not, and none changes the collection.
C17_ReadsDegrade ==
    lload.op \in ReadOperations =>
        /\ ~lload.raised
        /\ coll = lload.before
        /\ lload.fault # "ok" => lload.ret = 0 /\ lload.documents = <<>>

\* C17 witness: a read of a non-empty collection met a fault.
C17_Witness ==
    /\ lload.op = "get_collection_count" /\ lload.fault = "op_fault"
    /\ coll # <<>>
    /\ lload.ret = 0

\* C18: delete_collection that returns normally leaves no cached handle,
\* so the next operation that uses the store re-opens it; a
\* get_collection_count that comes next reports 0 and a search that comes
\* next returns no passage.
C18_Reset ==
    /\ lload.op = "delete_collection" /\ ~lload.raised => ~dbOpen
    /\ lload.reset_dropped # None =>
          /\ lload.before = <<>>
          /\ (lload.op \in ReadOperations \/ lload.inserted)
                /\ lload.fault # "open_fault" => dbOpen
          /\ lload.op = "get_collection_count" => lload.ret = 0
          /\ lload.op \in ReadOperations => lload.documents = <<>>

\* C18 witness: the count that follows the reset of a non-empty collection.
C18_Witness ==
    /\ lload.op = "get_collection_count" /\ lload.reset_dropped > 0
    /\ lload.fault = "ok" /\ lload.ret = 0

----------------------------------------------------------------------------
(* Claims about the loader, checked under SpecLoader *)

Occurrences(c, p) == Cardinality({i \in DOMAIN c : c[i] = p})

\* C5: after load_all_knowledge(force_reload=true) returns, the collection
\* holds exactly the passages this run ingested (none if it ingested none),
\* nothing that was there before, and the returned count is what the count
\* call reports (0 when that call faults).
C5_ReloadDeterminism ==
    lload.op = "load_all" /\ lload.force /\ ~lload.raised =>
        /\ coll = lload.documents
        /\ lload.ret = (IF lload.counted THEN Len(coll) ELSE 0)

\* C5 witness: a forced reload over a collection that held a passage the
\* fresh run no longer produces.
C5_Witness ==
    /\ lload.op = "load_all" /\ lload.force /\ ~lload.raised
    /\ coll # <<>>
    /\ \E i \in DOMAIN lload.before : lload.before[i] \notin Range(coll)

\* C6: over a non-empty collection, load_all_knowledge(force_reload=false)
\* runs no ingestion and no insert, leaves the collection unchanged and
\* returns the existing count, call after call.
C6_IdempotentNoOpLoad ==
    lload.op = "load_all" /\ ~lload.force /\ lload.before # <<>> =>
        /\ ~lload.raised
        /\ ~lload.ingest_ran
        /\ ~lload.inserted
        /\ coll = lload.before
        /\ lload.ret = Len(lload.before)

\* C7: load_category(name, force_reload=false) called twice in a row, and
\* load_category(name, force_reload=true), leave each passage of the
\* category in the collection exactly once.
C7_LoadCategoryIdempotent ==
    lload.op = "load_category" /\ ~lload.raised /\ (lload.repeat \/ lload.force) =>
        \A p \in Range(lload.documents) : Occurrences(coll, p) = 1

\* C16: when the insert step of load_all_knowledge, load_category or
\* add_document_from_text fails, the operation raises to its caller and
\* returns no count.
C16_InsertFailureVisible ==
    lload.insert_failed =>
        /\ lload.raised
        /\ lload.ret = 0
        /\ ~lload.inserted

\* C16 witness: load_category met a failing insert of the chunks it had
\* read from an existing category directory.
C16_Witness ==
    /\ lload.op = "load_category" /\ lload.insert_failed
    /\ lload.documents # <<>>

\* The knowledge-base path or the category path of the last load is
\* missing, or exists and yields no document.
ConfigurationError ==
    IF lload.op = "load_all"
    THEN ~kbExists \/ \A dir \in Dirs : LoadDirectory(disk, dir) = <<>>
    ELSE ~kbExists \/ LoadDirectory(disk, lload.category) = <<>>

MinLength == 50             \* min_length default
MinRelevance == 10          \* min_relevance default 0.1, in hundredths
MinAlphaPercent == 50       \* the literal 0.5 of the alphabetic ratio test
DefaultRelevance == 100     \* relevance_score read with default 1.0

\* What the filter measures on a passage: the length of its content, its
\* relevance_score metadata in hundredths (no loader path sets it, so the
\* default is read) and the percentage of alphabetic characters.
ChunkQuality(p) ==
    CASE p.head = "g2" -> [length |-> 12, relevance |-> DefaultRelevance, alpha |-> 90]
      [] p.head = "d1" -> [length |-> 200, relevance |-> DefaultRelevance, alpha |-> 30]
      [] OTHER -> [length |-> 400, relevance |-> DefaultRelevance, alpha |-> 80]

\* The three tests of the filter loop; a passage failing one is skipped.
PassesQualityFilter(p) ==
    /\ ~(ChunkQuality(p).length < MinLength)
    /\ ~(ChunkQuality(p).relevance < MinRelevance)
    /\ ~(ChunkQuality(p).alpha < MinAlphaPercent)

\* C21: every passage load_all_knowledge inserts has passed the quality
\* filter: long enough, relevant enough and at least half alphabetic.
C21_QualityFiltered ==
    lload.op = "load_all" /\ lload.inserted =>
        \A p \in Range(lload.documents) : PassesQualityFilter(p)

\* C22: a file that fails to load keeps no other file out of the run of
\* process_knowledge_base: the passages of every loadable file on disk are
\* in what the run returns, whatever directory and file type they share
\* with the failing file.
C22_FailureIsolation ==
    lload.op = "load_all" /\ lload.ingest_ran /\ kbExists =>
        \A i \in DOMAIN AllFiles :
            AllFiles[i].name \in disk /\ AllFiles[i].readable =>
                \A j \in DOMAIN AllFiles[i].chunks :
                    \E p \in Range(lload.documents) :
                        p.head = AllFiles[i].chunks[j].head

\* C23: whatever insert operations have run (load_all_knowledge,
\* load_category, add_document_from_text, embed_knowledge_from_text), every
\* passage in the collection has non-empty content and a category in its
\* metadata.
C23_PassageInvariant ==
    \A i \in DOMAIN coll :
        /\ coll[i].head # ""
        /\ coll[i].category # NoCategory

\* C26: load_all_knowledge(force_reload=false) never adds to a collection
\* that holds passages, also when its count query faults.
C26_InsertOnlyWhenEmpty ==
    lload.op = "load_all" /\ ~lload.force /\ lload.before # <<>> =>
        ~lload.inserted /\ Len(coll) = Len(lload.before)

----------------------------------------------------------------------------
(* RAGRetriever and ImmunityRAGRetriever *)

MinScoreThreshold == 7      \* min_score_threshold default 0.7
SymptomThreshold == 7       \* the literal 0.7 of _retrieve_symptom_context

\* hash(doc.page_content[:100]): equal for passages with equal first 100 characters
ContentHash(doc) == doc.head

\* The dict appended to the result list ("query_used" is a label no code reads).
Entry(h) == [content |-> h.doc, similarity_score |-> h.score]

\* The loop of the trait and symptom helpers: threshold first, then first
\* occurrence of a content hash.
RECURSIVE ThresholdDedupLoop(_, _, _, _)
ThresholdDedupLoop(hits, thr, acc, seen) ==
    IF hits = <<>> THEN acc
    ELSE LET h == Head(hits) IN
         IF h.score < thr
         THEN ThresholdDedupLoop(Tail(hits), thr, acc, seen)
         ELSE IF ContentHash(h.doc) \in seen
         THEN ThresholdDedupLoop(Tail(hits), thr, acc, seen)
         ELSE ThresholdDedupLoop(Tail(hits), thr, Append(acc, Entry(h)),
                                 seen \cup {ContentHash(h.doc)})

\* The second loop of the age helpers: first occurrence of a content hash.
RECURSIVE DedupLoop(_, _, _)
DedupLoop(results, acc, seen) ==
    IF results = <<>> THEN acc
    ELSE LET r == Head(results) IN
         IF ContentHash(r.content) \in seen
         THEN DedupLoop(Tail(results), acc, seen)
         ELSE DedupLoop(Tail(results), Append(acc, r),
                        seen \cup {ContentHash(r.content)})

Entries(hits) == [i \in DOMAIN hits |-> Entry(hits[i])]

\* list.sort(key=similarity_score, reverse=True): stable, highest first.
RECURSIVE InsertByScore(_, _)
InsertByScore(sorted, e) ==
    IF sorted = <<>> THEN <<e>>
    ELSE IF Head(sorted).similarity_score >= e.similarity_score
         THEN <<Head(sorted)>> \o InsertByScore(Tail(sorted), e)
         ELSE <<e>> \o sorted

RECURSIVE SortByScoreFrom(_, _)
SortByScoreFrom(s, acc) ==
    IF s = <<>> THEN acc
    ELSE SortByScoreFrom(Tail(s), InsertByScore(acc, Head(s)))

SortByScore(s) == SortByScoreFrom(s, <<>>)

\* Number of reformulated queries and results asked per query, per helper.
TraitQueryCount == 4
AgeQueryCount == 3
ActivityQueryCount == 3
SymptomQueryCount(age) == IF Truthy(age) THEN 5 ELSE 4
EmergencyQueryCount == 4
AgeMedicalQueryCount == 3
TraitMedicalQueryCount == 3
PerQueryK(k, nq) == (k \div nq) + 1
MedicalPerQueryK == 2

ActivityFilter == "cognitive"

\* Full list before the final [:k] of each helper.
TraitContextList(hits, thr) == SortByScore(ThresholdDedupLoop(hits, thr, <<>>, {}))
AgeContextList(hits) == SortByScore(DedupLoop(Entries(hits), <<>>, {}))
SymptomContextList(hits) ==
    SortByScore(ThresholdDedupLoop(hits, SymptomThreshold, <<>>, {}))
FlooredList(hits) ==
    SortByScore(SelectSeq(Entries(hits),
                          LAMBDA e : e.similarity_score >= MinScoreThreshold))
UndedupedList(hits) == SortByScore(Entries(hits))
SearchKnowledgeList(hits) == Entries(hits)

\* k each entry point hands to its helpers.
AgeContextK == 3
ActivitiesK == 3
SymptomK == 3
EmergencyK == 3
AgeMedicalK == 2
TraitMedicalK == 2

\* A symptom and a keyword are texts, written as their lower-case words in
\* order; " ".join(symptoms) is then the concatenation of the symptoms.
EmergencyKeywords == {
    <<"breathing">>, <<"can't", "breathe">>, <<"difficulty", "breathing">>,
    <<"choking">>, <<"blue", "lips">>, <<"unconscious">>, <<"seizure">>,
    <<"high", "fever">>, <<"severe", "pain">>, <<"vomiting", "blood">>,
    <<"allergic", "reaction">>, <<"swelling">>, <<"rash", "spreading">>,
    <<"emergency">>, <<"urgent">>, <<"911">>, <<"hospital">> }

\* keyword in symptoms_text
Contains(text, keyword) ==
    \E i \in 0..(Len(text) - Len(keyword)) :
        SubSeq(text, i + 1, i + Len(keyword)) = keyword

\* ImmunityRAGRetriever._has_emergency_keywords
HasEmergencyKeywords(symptoms) ==
    LET symptoms_text == Flatten(symptoms)
    IN  \E keyword \in EmergencyKeywords : Contains(symptoms_text, keyword)

\* The list a helper returns for the call, with what its [:k] cut off.
Produced(group, full, hk) ==
    [entry |-> rcall.entry, group |-> group, k |-> rcall.k,
     result |-> Take(full, hk),
     dropped |-> SubSeq(full, Min(hk, Len(full)) + 1, Len(full)),
     searched |-> TRUE, returned |-> 0, filter |-> NoFilter,
     content_type |-> "", failed |-> 0, reissued |-> 0]

StartRetrieveForTraits ==
    /\ rcall = NoCall
    /\ \E traits \in TraitLists, age \in Ages, k \in Ks :
          rcall' = [NoCall EXCEPT !.entry = "retrieve_for_traits",
                                  !.traits = traits, !.age = age, !.k = k]
    /\ rdone' = NoGroup
    /\ UNCHANGED <<loaderVars, adapterVars>>

StartRetrieveMedicalContext ==
    /\ rcall = NoCall
    /\ \E symptoms \in SymptomLists, age \in Ages, ct \in TraitLists, k \in Ks :
          rcall' = [NoCall EXCEPT !.entry = "retrieve_medical_context",
                                  !.symptoms = symptoms, !.age = age,
                                  !.child_traits = ct, !.k = k]
    /\ rdone' = NoGroup
    /\ UNCHANGED <<loaderVars, adapterVars>>

\* medical_keywords of _extract_symptoms_from_query, as word sequences
MedicalKeywords == {
    <<"fever">>, <<"cough">>, <<"rash">>, <<"vomiting">>, <<"diarrhea">>,
    <<"headache">>, <<"pain">>, <<"swelling">>, <<"breathing">>, <<"wheezing">>,
    <<"allergic">>, <<"reaction">>, <<"infection">>, <<"sick">>, <<"illness">>,
    <<"tired">>, <<"fatigue">>, <<"appetite">>, <<"sleep">>, <<"crying">>,
    <<"fussy">>, <<"congestion">>, <<"runny", "nose">>,
    <<"emergency">>, <<"urgent">>, <<"911">>, <<"hospital">>, <<"severe">>,
    <<"can't", "breathe">>, <<"unconscious">>, <<"seizure">>, <<"choking">>,
    <<"blue">>, <<"blood">>,
    <<"ear">>, <<"throat">>, <<"stomach">>, <<"chest">>, <<"skin">>, <<"eyes">>,
    <<"nose">>, <<"mouth">>, <<"head">>, <<"neck">>, <<"back">>, <<"arm">>,
    <<"leg">> }

\* symptom_phrases of _extract_symptoms_from_query
SymptomPhrases == {
    <<"not", "eating">>, <<"won't", "eat">>, <<"difficulty", "breathing">>,
    <<"trouble", "sleeping">>, <<"high", "fever">>, <<"low", "fever">>,
    <<"sore", "throat">>, <<"ear", "pain">>, <<"stomach", "ache">>,
    <<"throwing", "up">>, <<"can't", "sleep">>, <<"very", "tired">>,
    <<"won't", "play">> }

\* RAGEnhancedChildCareChatbot._extract_symptoms_from_query: the keywords
\* and phrases found in the query, as list(set(...)) returns them, that is
\* in any order.
ExtractSymptomsFromQuery(query) ==
    LET detected == {kw \in MedicalKeywords \cup SymptomPhrases : Contains(query, kw)}
        n == Cardinality(detected)
    IN  {l \in [1..n -> detected] : \A i, j \in 1..n : i # j => l[i] # l[j]}

\* Queries a user may send, as word sequences.
Queries == {<<"he", "has", "blue", "lips">>, <<"she", "is", "in", "severe", "pain">>,
            <<"he", "had", "a", "seizure">>, <<"what", "games", "are", "good">>}

\* child_profile of chat_with_medical_context: None, or a profile with an
\* age and immunity traits.
ChildProfiles == {[age |-> None, traits |-> <<>>], [age |-> 30, traits |-> <<"focus">>]}

\* chat_with_medical_context over a ready medical store, up to its call of
\* retrieve_medical_context(symptoms, age_months, child_traits, k=3); no
\* retrieval is started when no symptom is extracted.
StartChatRetrieval ==
    /\ rcall = NoCall
    /\ \E query \in Queries, child_profile \in ChildProfiles :
       \E symptoms \in ExtractSymptomsFromQuery(query) :
          /\ symptoms # <<>>
          /\ rcall' = [NoCall EXCEPT !.entry = "retrieve_medical_context",
                                     !.symptoms = symptoms, !.query = query,
                                     !.age = child_profile.age,
                                     !.child_traits = child_profile.traits,
                                     !.k = 3]
    /\ rdone' = NoGroup
    /\ UNCHANGED <<loaderVars, adapterVars>>

Running(entry) == rcall.entry = entry /\ rdone = NoGroup

RetrieveTraitContext ==
    /\ Running("retrieve_for_traits")
    /\ rcall.traits # <<>>
    /\ \E hits \in SimilaritySearchWithScore(coll, NoFilter, TraitQueryCount,
                        PerQueryK(rcall.k, TraitQueryCount)) :
          rdone' = Produced("trait", TraitContextList(hits, MinScoreThreshold), rcall.k)
    /\ UNCHANGED <<loaderVars, rcall, adapterVars>>

RetrieveAgeContext ==
    /\ Running("retrieve_for_traits")
    /\ Truthy(rcall.age)
    /\ \E hits \in SimilaritySearchWithScore(coll, NoFilter, AgeQueryCount,
                        PerQueryK(AgeContextK, AgeQueryCount)) :
          rdone' = Produced("general_age", AgeContextList(hits), AgeContextK)
    /\ UNCHANGED <<loaderVars, rcall, adapterVars>>

\* failed counts the queries whose filtered search met a fault of the store,
\* reissued those the except clause of the helper searched again without
\* the filter; hits are the answers to the other queries, more those of the
\* reissued ones.  similarity_search_with_score hands no fault on to its
\* caller: its own except clause answers every fault with the empty list.
RetrieveAgeSpecificActivities ==
    /\ Running("retrieve_for_traits")
    /\ Truthy(rcall.age)
    /\ \E failed \in 0..ActivityQueryCount :
        LET kq == PerQueryK(ActivitiesK, ActivityQueryCount)
            search_raises == FALSE
            reissued == IF search_raises THEN failed ELSE 0
        IN  \E hits \in SimilaritySearchWithScore(coll, ActivityFilter,
                            ActivityQueryCount - failed, kq),
               more \in SimilaritySearchWithScore(coll, NoFilter, reissued, kq) :
              /\ Len(hits) + Len(more) <= MaxHits
              /\ rdone' = [Produced("age_activities", AgeContextList(hits \o more),
                                    ActivitiesK)
                             EXCEPT !.failed = failed, !.reissued = reissued]
    /\ UNCHANGED <<loaderVars, rcall, adapterVars>>

RetrieveSymptomContext ==
    /\ Running("retrieve_medical_context")
    /\ rcall.symptoms # <<>>
    /\ \E hits \in SimilaritySearchWithScore(coll, NoFilter,
                        SymptomQueryCount(rcall.age), MedicalPerQueryK) :
          rdone' = Produced("symptom", SymptomContextList(hits), SymptomK)
    /\ UNCHANGED <<loaderVars, rcall, adapterVars>>

\* The emergency_protocols group of retrieve_medical_context: the list of
\* _retrieve_emergency_context when a keyword is detected, else the empty
\* list the context starts with.  returned counts what the store handed back.
RetrieveEmergencyContext ==
    /\ Running("retrieve_medical_context")
    /\ IF HasEmergencyKeywords(rcall.symptoms)
       THEN \E hits \in SimilaritySearchWithScore(coll, NoFilter, EmergencyQueryCount,
                        MedicalPerQueryK) :
                rdone' = [Produced("emergency", UndedupedList(hits), EmergencyK)
                            EXCEPT !.returned = Len(hits)]
       ELSE rdone' = [Produced("emergency", <<>>, EmergencyK)
                        EXCEPT !.searched = FALSE]
    /\ UNCHANGED <<loaderVars, rcall, adapterVars>>

RetrieveAgeMedicalContext ==
    /\ Running("retrieve_medical_context")
    /\ Truthy(rcall.age)
    /\ \E hits \in SimilaritySearchWithScore(coll, NoFilter, AgeMedicalQueryCount,
                        MedicalPerQueryK) :
          rdone' = Produced("age_medical", UndedupedList(hits), AgeMedicalK)
    /\ UNCHANGED <<loaderVars, rcall, adapterVars>>

RetrieveTraitMedicalContext ==
    /\ Running("retrieve_medical_context")
    /\ rcall.child_traits # <<>>
    /\ \E hits \in SimilaritySearchWithScore(coll, NoFilter, TraitMedicalQueryCount,
                        MedicalPerQueryK) :
          rdone' = Produced("trait_medical", UndedupedList(hits), TraitMedicalK)
    /\ UNCHANGED <<loaderVars, rcall, adapterVars>>

ReturnContext ==
    /\ rcall.entry \in {"retrieve_for_traits", "retrieve_medical_context"}
    /\ rcall' = NoCall
    /\ rdone' = NoGroup
    /\ UNCHANGED <<loaderVars, adapterVars>>

\* category_filter values a caller may pass: None (NoFilter), the empty
\* string, and two category names.
CategoryFilters == {NoFilter, "", "nutrition", "cognitive"}

\* filter_dict of search_knowledge: built only for a truthy category_filter.
IgnoreCategoryFilter(category_filter) == NoFilter
FilterDict(category_filter) ==
    IF category_filter \in {NoFilter, ""} THEN NoFilter ELSE category_filter

SearchKnowledge ==
    /\ rcall = NoCall
    /\ \E category_filter \in CategoryFilters, k \in Ks :
         \E hits \in SimilaritySearchWithScore(coll, FilterDict(category_filter),
                                                1, k) :
            /\ rcall' = NoCall
            /\ rdone' = [entry |-> "search_knowledge", group |-> "search", k |-> k,
                         result |-> SearchKnowledgeList(hits), dropped |-> <<>>,
                         searched |-> TRUE, returned |-> Len(hits),
                         filter |-> category_filter, content_type |-> "",
                         failed |-> 0, reissued |-> 0]
    /\ UNCHANGED <<loaderVars, adapterVars>>

RetrieverColls == {<<PassageA, PassageC>>, <<PassageA, PassageB>>}

InitRetriever ==
    /\ coll \in RetrieverColls
    /\ dbOpen = TRUE
    /\ disk = {}
    /\ kbExists = TRUE
    /\ lload = NoLoad
    /\ rcall = NoCall
    /\ rdone = NoGroup
    /\ NoAdapter

NextRetriever ==
    \/ StartRetrieveForTraits
    \/ StartRetrieveMedicalContext
    \/ StartChatRetrieval
    \/ RetrieveTraitContext
    \/ RetrieveAgeContext
    \/ RetrieveAgeSpecificActivities
    \/ RetrieveSymptomContext
    \/ RetrieveEmergencyContext
    \/ RetrieveAgeMedicalContext
    \/ RetrieveTraitMedicalContext
    \/ ReturnContext
    \/ SearchKnowledge

SpecRetriever == InitRetriever /\ [][NextRetriever]_vars

TypeRetriever == rcall.k \in Ks /\ Len(rdone.result) <= MaxHits

----------------------------------------------------------------------------
(* Claims about the retrievers, checked under SpecRetriever *)

MultiQueryGroups == {"trait", "general_age", "age_activities", "symptom",
                     "emergency", "age_medical", "trait_medical"}

\* C1: every list a retrieval call returns, the emergency-protocol group
\* excepted, holds no entry whose similarity_score is below the 0.7 floor
\* (trait, general-age, age-activity, symptom, age-medical, trait-medical
\* groups and search_knowledge).
C1_ScoreFloor ==
    rdone.group \notin {"none", "emergency"} =>
        \A i \in DOMAIN rdone.result :
            rdone.result[i].similarity_score >= MinScoreThreshold

\* C2: in the list of every multi-query helper a passage appears at most
\* once, however many of the reformulated queries returned it.
C2_DedupOnce ==
    rdone.group \in MultiQueryGroups =>
        \A i, j \in DOMAIN rdone.result :
            i # j => rdone.result[i].content # rdone.result[j].content

\* C3: a list returned by a retrieval call made with parameter k has at most
\* k entries: the per-trait lists of retrieve_for_traits, the list of
\* search_knowledge and every group of retrieve_medical_context.
C3_TopKCap ==
    \/ rdone.group \in {"trait", "search"}
    \/ rdone.entry = "retrieve_medical_context"
    => Len(rdone.result) <= rdone.k

\* C4: every returned list is ordered by similarity_score from highest to
\* lowest, and nothing the truncation dropped scores higher than an entry
\* that was kept (multi-query helpers and search_knowledge).
C4_RankedDescending ==
    rdone.group # "none" =>
        /\ \A i, j \in DOMAIN rdone.result :
              i < j => rdone.result[i].similarity_score
                            >= rdone.result[j].similarity_score
        /\ \A i \in DOMAIN rdone.result, j \in DOMAIN rdone.dropped :
              rdone.dropped[j].similarity_score
                    <= rdone.result[i].similarity_score

\* C14: the emergency_protocols group of retrieve_medical_context comes
\* from the emergency retrieval exactly when the joined symptom text holds
\* a keyword of the emergency list; it then keeps the first EmergencyK of
\* what the store returned and removes nothing on account of its score;
\* without a keyword the group is empty.
C14_EmergencyRecall ==
    rdone.group = "emergency" =>
        /\ rdone.searched <=>
              \E keyword \in EmergencyKeywords :
                  Contains(Flatten(rcall.symptoms), keyword)
        /\ ~rdone.searched => rdone.result = <<>>
        /\ rdone.searched =>
              /\ Len(rdone.result) + Len(rdone.dropped) = rdone.returned
              /\ Len(rdone.result) = Min(rdone.returned, EmergencyK)

\* C14 witness: the keyword "high fever" is found across two symptoms and
\* the emergency group includes a passage scored below the floor.
C14_Witness ==
    /\ rdone.group = "emergency" /\ rdone.searched
    /\ rcall.symptoms = << <<"high">>, <<"fever">> >>
    /\ \E i \in DOMAIN rdone.result :
          rdone.result[i].similarity_score < MinScoreThreshold


\* C15: search_knowledge called with a non-empty category_filter returns
\* no passage whose category differs from it, whatever the collection holds.
C15_CategoryFilter ==
    rdone.group = "search" /\ rdone.filter \notin {NoFilter, ""} =>
        \A i \in DOMAIN rdone.result :
            rdone.result[i].content.category = rdone.filter

\* C15 witness: a filtered search over a collection that also holds a
\* passage of another category returns a passage.
C15_Witness ==
    /\ rdone.group = "search" /\ rdone.filter = "nutrition"
    /\ rdone.result # <<>>
    /\ \E i \in DOMAIN coll : coll[i].category # "nutrition"

----------------------------------------------------------------------------
(* build_context_prompt and build_medical_context_prompt *)

\* A retrieved item as the prompt builders see it: the length of its
\* content and whether its metadata has a title.
PromptItems == {[length |-> 100, title |-> TRUE], [length |-> 400, title |-> FALSE]}
SectionLists ==
    {<<>>} \cup {<<a>> : a \in PromptItems}
           \cup {<<a, b, c>> : a \in PromptItems, b \in PromptItems, c \in PromptItems}
KeyedLists ==
    {<<>>, <<[length |-> 400, title |-> FALSE]>>,
     <<[length |-> 400, title |-> FALSE], [length |-> 100, title |-> TRUE],
       [length |-> 400, title |-> TRUE]>>}

\* The longest text, in words, given to the content-type classifier.
MaxWords == 3

\* A per-trait or per-symptom dictionary in insertion order, of at most
\* MaxKeys keys; the i-th key is named i, and 0 names no key.
MaxKeys == 2
KeyedDicts ==
    UNION {{[i \in 1..n |-> [key |-> i, items |-> l[i]]] :
               l \in [1..n -> KeyedLists]} : n \in 0..MaxKeys}

TraitItemBudget == 300      \* item['content'][:300]
GeneralItemBudget == 250    \* item['content'][:250]
ActivityItemBudget == 250
EmergencyItemBudget == 200
SymptomItemBudget == 250
AgeGuidanceItemBudget == 200
TraitInfoItemBudget == 200
ItemsPerGroup == 2          \* the [:2] slices
ItemsPerTraitInfo == 1      \* trait_context[:1]

\* content[:budget]: how many characters of the content the line holds
Unclipped(length, budget) == length
Clip(length, budget) == Min(length, budget)

Header(section) == [kind |-> "header", section |-> section, key |-> 0, chars |-> 0]
EndMarker == [kind |-> "end", section |-> "end", key |-> 0, chars |-> 0]

\* The lines appended for the first cap items of one list; with_source adds
\* the "Source:" line of an item that has a title.
ItemLines(section, key, items, cap, budget, with_source) ==
    Flatten([i \in 1..Min(cap, Len(items)) |->
        <<[kind |-> "item", section |-> section, key |-> key,
           chars |-> Clip(items[i].length, budget)]>>
        \o (IF with_source /\ items[i].title
            THEN <<[kind |-> "source", section |-> section, key |-> key, chars |-> 0]>>
            ELSE <<>>)])

\* A section built from a list: nothing when the list is empty.
ListSection(section, items, cap, budget) ==
    IF items = <<>> THEN <<>>
    ELSE <<Header(section)>> \o ItemLines(section, 0, items, cap, budget, FALSE)

\* A section built from a dictionary: nothing when the dictionary is empty,
\* and no lines for a key whose list is empty.
DictSection(section, dict, cap, budget, with_source) ==
    IF dict = <<>> THEN <<>>
    ELSE <<Header(section)>> \o
         Flatten([d \in DOMAIN dict |->
            IF dict[d].items = <<>> THEN <<>>
            ELSE <<[kind |-> "subheader", section |-> section,
                    key |-> dict[d].key, chars |-> 0]>>
                 \o ItemLines(section, dict[d].key, dict[d].items, cap, budget,
                              with_source)])

\* RAGRetriever.build_context_prompt, as the list of lines it joins
BuildContextPrompt(context) ==
    DictSection("trait_contexts", context.trait_contexts, ItemsPerGroup,
                TraitItemBudget, TRUE)
    \o ListSection("general_context", context.general_context, ItemsPerGroup,
                   GeneralItemBudget)
    \o ListSection("age_specific_context", context.age_specific_context,
                   ItemsPerGroup, ActivityItemBudget)
    \o <<EndMarker>>

\* ImmunityRAGRetriever.build_medical_context_prompt
BuildMedicalContextPrompt(context) ==
    ListSection("emergency_protocols", context.emergency_protocols, ItemsPerGroup,
                EmergencyItemBudget)
    \o DictSection("symptom_contexts", context.symptom_contexts, ItemsPerGroup,
                   SymptomItemBudget, FALSE)
    \o ListSection("age_specific_guidance", context.age_specific_guidance,
                   ItemsPerGroup, AgeGuidanceItemBudget)
    \o DictSection("trait_related_info", context.trait_related_info,
                   ItemsPerTraitInfo, TraitInfoItemBudget, FALSE)
    \o <<EndMarker>>

PlannerContexts ==
    [trait_contexts : KeyedDicts, general_context : SectionLists,
     age_specific_context : SectionLists]
MedicalContexts ==
    [emergency_protocols : SectionLists, symptom_contexts : KeyedDicts,
     age_specific_guidance : {<<>>, <<[length |-> 400, title |-> FALSE]>>},
     trait_related_info : KeyedDicts]

BuildContextPromptCall ==
    /\ rcall.entry = "build_context_prompt"
    /\ rdone = NoGroup
    /\ rdone' = [entry |-> rcall.entry, group |-> "prompt",
                 prompt |-> BuildContextPrompt(rcall.context)]
    /\ UNCHANGED <<rcall, loaderVars, adapterVars>>

BuildMedicalContextPromptCall ==
    /\ rcall.entry = "build_medical_context_prompt"
    /\ rdone = NoGroup
    /\ rdone' = [entry |-> rcall.entry, group |-> "prompt",
                 prompt |-> BuildMedicalContextPrompt(rcall.context)]
    /\ UNCHANGED <<rcall, loaderVars, adapterVars>>

InitPrompt ==
    /\ coll = <<>>
    /\ dbOpen = FALSE
    /\ disk = {}
    /\ kbExists = TRUE
    /\ lload = NoLoad
    /\ rcall \in {[entry |-> "build_context_prompt", context |-> c] :
                     c \in PlannerContexts}
             \cup {[entry |-> "build_medical_context_prompt", context |-> c] :
                     c \in MedicalContexts}
    /\ rdone = NoGroup
    /\ NoAdapter

NextPrompt ==
    \/ BuildContextPromptCall
    \/ BuildMedicalContextPromptCall

SpecPrompt == InitPrompt /\ [][NextPrompt]_vars

\* The item lines the prompt holds for one group: a section and, inside a
\* dictionary section, one key.
GroupItems(prompt, section, key) ==
    {i \in DOMAIN prompt : /\ prompt[i].kind = "item"
                           /\ prompt[i].section = section
                           /\ prompt[i].key = key}

\* Are all the groups of the context the prompt was built from empty?
AllGroupsEmpty(context) ==
    \A f \in DOMAIN context : context[f] = <<>>

\* C24: a built prompt holds at most 2 passages per group, at most 300
\* characters of any passage, puts the EMERGENCY PROTOCOLS section before
\* every other line when that group is non-empty, and ends with the end
\* marker, also when every group is empty.
C24_BoundedFramedContext ==
    rdone.group = "prompt" =>
        LET prompt == rdone.prompt IN
        /\ \A i \in DOMAIN prompt :
              /\ Cardinality(GroupItems(prompt, prompt[i].section, prompt[i].key)) <= 2
              /\ prompt[i].chars <= 300
        /\ rcall.entry = "build_medical_context_prompt"
              /\ rcall.context.emergency_protocols # <<>>
              => prompt[1] = Header("emergency_protocols")
        /\ prompt # <<>> /\ prompt[Len(prompt)] = EndMarker
        /\ \A i \in 1..(Len(prompt) - 1) : prompt[i].kind # "end"
        /\ AllGroupsEmpty(rcall.context) => prompt = <<EndMarker>>

\* C24 witness: a medical prompt built from three emergency passages, the
\* first longer than any budget, and a symptom with three passages.
C24_Witness ==
    /\ rdone.group = "prompt" /\ rcall.entry = "build_medical_context_prompt"
    /\ Len(rcall.context.emergency_protocols) = 3
    /\ rcall.context.emergency_protocols[1].length > 300
    /\ \E d \in DOMAIN rcall.context.symptom_contexts :
          Len(rcall.context.symptom_contexts[d].items) = 3

\* C25: when the query passed to chat_with_medical_context holds a keyword
\* of the emergency list, the emergency-protocol retrieval is performed for
\* that call, however _extract_symptoms_from_query split and ordered the
\* symptoms.
C25_EndToEndEmergency ==
    /\ rdone.group = "emergency"
    /\ \E keyword \in EmergencyKeywords : Contains(rcall.query, keyword)
    => rdone.searched

\* C29: in the age-specific activities group every query whose filtered
\* search failed is searched again without the filter.
C29_FilterFallback ==
    rdone.group = "age_activities" => rdone.reissued = rdone.failed

\* C30: a call that was given an age, an age of 0 months included, performs
\* the age-based retrievals (the general and the activities group of
\* retrieve_for_traits, the age guidance group of retrieve_medical_context)
\* and adds the age-qualified query to the queries of each symptom.
C30_AgeHandling ==
    /\ Running("retrieve_for_traits") /\ rcall.age # None =>
          /\ ENABLED RetrieveAgeContext
          /\ ENABLED RetrieveAgeSpecificActivities
    /\ Running("retrieve_medical_context") /\ rcall.age # None =>
          /\ ENABLED RetrieveAgeMedicalContext
          /\ SymptomQueryCount(rcall.age) = SymptomQueryCount(30)

----------------------------------------------------------------------------
(* Enhanced adapters: EnhancedLogGenerationService (planner) and           *)
(* RAGEnhancedChildCareChatbot (chatbot).  Each owns a store, a loader and *)
(* a retriever and shares one generation agent among its callers.  An      *)
(* instruction is a sequence of text blocks: 0 is the text the agent was   *)
(* created with, c the context block retrieved for caller c.               *)

MaxInstructionLen == 3  \* most text blocks an instruction is let grow to
MaxFound == 1           \* most passages one retrieval is counted to find

BaseInstruction == <<0>>
ContextOf(c) == <<c>>

Waits == {"enhanced_wait", "plain_wait", "fallback_wait"}

\* The attributes LogGenerationService.__init__ sets on the base service;
\* child_log_agent is a module global, not one of them.
LogGenerationServiceAttrs == {"session_service", "app_name"}

\* _ensure_rag_ready and _ensure_medical_rag_ready, with the faults of the
\* store calls: fc0 the count, fc1, fe, fc2 those of the auto-load.
EnsureRagReadyForgets(cfg, init, c, open, files, exists, order, fc0, fc1, fe, fc2) ==
    [ready |-> cfg.use_rag, init |-> FALSE, coll |-> c, open |-> open, log |-> lload,
     loaded |-> FALSE, loaded_count |-> None]
EnsureRagReady(cfg, init, c, open, files, exists, order, fc0, fc1, fe, fc2) ==
    LET doc_count == GetCollectionCount(c, fc0)
        open0 == HandleAfter(open, fc0)
        out == LoadAllOutcome(c, open0, files, exists, FALSE, order, "ok", fc1, fe, fc2)
    IN  IF ~cfg.use_rag
        THEN [ready |-> FALSE, init |-> init, coll |-> c, open |-> open, log |-> lload,
              loaded |-> FALSE, loaded_count |-> None]
        ELSE IF init
        THEN [ready |-> TRUE, init |-> init, coll |-> c, open |-> open, log |-> lload,
              loaded |-> FALSE, loaded_count |-> None]
        ELSE IF doc_count = 0 /\ cfg.auto_load
        THEN [ready |-> ~out.log.raised /\ out.log.ret > 0,
              init |-> ~out.log.raised /\ out.log.ret > 0,
              coll |-> out.coll, open |-> out.open, log |-> out.log,
              loaded |-> TRUE,
              loaded_count |-> IF out.log.raised THEN None ELSE out.log.ret]
        ELSE [ready |-> TRUE, init |-> TRUE, coll |-> c, open |-> open0, log |-> lload,
              loaded |-> FALSE, loaded_count |-> None]

\* The faults the store calls of the auto-load can meet: none when the
\* auto-load is not run.
AutoLoadFaults(fc0) ==
    IF config.use_rag /\ ~ragInit /\ config.auto_load /\ GetCollectionCount(coll, fc0) = 0
    THEN {"ok", "op_fault"} ELSE {"ok"}

\* What the retrieval of one adapter call comes to: it raises, or it returns
\* a context holding some number of passages (none from an empty collection).
NoRetrieval == [ran |-> FALSE, raised |-> FALSE, found |-> 0]
RetrievalOutcomes(c) ==
    {[ran |-> TRUE, raised |-> TRUE, found |-> 0]} \cup
    {[ran |-> TRUE, raised |-> FALSE, found |-> n] :
        n \in 0..(IF c = <<>> THEN 0 ELSE MaxFound)}

\* The provenance keys of the result dictionaries, and what a caller gets:
\* the tagged dictionary of the planner entry points, the dictionary of
\* chat_with_medical_context, the untagged dictionary of the fallback
\* service of RAGService, or an exception.
PlannerTags == {"rag_enhanced", "rag_context_used", "rag_documents_found"}
ChatbotTags == {"rag_enhanced", "rag_medical_documents_used", "symptoms_detected",
                "medical_context_length"}
PlannerResult(rag_context, rag_docs_count) ==
    [kind |-> "dict", keys |-> PlannerTags, rag_enhanced |-> rag_context,
     documents |-> rag_docs_count]
ChatbotResult(enhanced, rag_docs_count) ==
    [kind |-> "dict", keys |-> ChatbotTags, rag_enhanced |-> enhanced,
     documents |-> IF enhanced THEN rag_docs_count ELSE 0]
FallbackResult == [NoResult EXCEPT !.kind = "dict"]
ExceptionResult == [NoResult EXCEPT !.kind = "exception"]

\* ChildCareChatbot._ensure_initialized: creates the agents on first use.
EnsureInitialized(a) ==
    IF a.created THEN a ELSE [created |-> TRUE, instruction |-> BaseInstruction]

\* The finally clause of the augmented path leaves the saved instruction
\* where the augmented one was.
KeepInstruction(a, orig) == a
RestoreInstruction(a, orig) == [a EXCEPT !.instruction = orig]

Overlapping(c) == \E d \in Callers \ {c} : calls[d].pc \in Waits

\* The call records after caller c's call has begun as rec: every call
\* suspended at its generation call now has another call running beside it.
Begun(c, rec) ==
    [d \in Callers |->
        IF d = c THEN rec
        ELSE IF calls[d].pc \in Waits THEN [calls[d] EXCEPT !.overlapped = TRUE]
        ELSE calls[d]]

Started(c, entry, rdy, retrieval) ==
    [NoAdapterCall EXCEPT !.entry = entry, !.ready = rdy.ready,
                          !.retrieved = (retrieval.ran /\ ~retrieval.raised),
                          !.retrieval_raised = retrieval.raised,
                          !.found = retrieval.found, !.pre = agent,
                          !.overlapped = Overlapping(c)]

\* RAGEnhancedChildCareChatbot.chat_with_medical_context up to its awaited
\* generation call; symptoms says whether the query names any symptom.
ChatWithMedicalContext(c) ==
    /\ adapter = "chatbot"
    /\ calls[c].pc = "idle"
    /\ \E symptoms \in BOOLEAN, order \in DirOrders, fc0 \in FaultsOf(TRUE, dbOpen) :
       \E fc1 \in AutoLoadFaults(fc0), fe \in AutoLoadFaults(fc0),
          fc2 \in AutoLoadFaults(fc0) :
        LET rdy == EnsureRagReady(config, ragInit, coll, dbOpen, disk, kbExists,
                                  order, fc0, fc1, fe, fc2)
        IN  \E retrieval \in (IF rdy.ready /\ symptoms
                              THEN RetrievalOutcomes(rdy.coll) ELSE {NoRetrieval}) :
            LET medical_context == rdy.ready /\ symptoms /\ ~retrieval.raised
                rag_docs_count == retrieval.found
                started == Started(c, "chat_with_medical_context", rdy, retrieval)
            IN  /\ Len(rdy.coll) <= MaxDocs
                /\ coll' = rdy.coll
                /\ dbOpen' = rdy.open
                /\ ragInit' = rdy.init
                /\ IF medical_context /\ rag_docs_count > 0
                   THEN IF ~agent.created
                        THEN \* self.agents["dr_bloom"]: KeyError
                             /\ agent' = agent
                             /\ calls' = Begun(c, [started EXCEPT !.pc = "done",
                                                     !.raised = TRUE, !.post = agent,
                                                     !.result = ExceptionResult])
                        ELSE /\ Len(agent.instruction) < MaxInstructionLen
                             /\ agent' = [agent EXCEPT !.instruction = @ \o ContextOf(c)]
                             /\ calls' = Begun(c, [started EXCEPT !.pc = "enhanced_wait",
                                                     !.augmented = TRUE,
                                                     !.orig = agent.instruction])
                   ELSE /\ agent' = EnsureInitialized(agent)
                        /\ calls' = Begun(c, [started EXCEPT !.pc = "plain_wait",
                                                !.plain_called = TRUE])
    /\ UNCHANGED <<diskVars, lload, retrieverVars, adapter, config>>

\* RAGService.generate_enhanced_initial_log and generate_enhanced_followup_log
\* calling EnhancedLogGenerationService.generate_initial_log and
\* generate_followup_log, up to the awaited generation call;
\* _generate_with_rag_context and
\* _generate_followup_with_rag_context read base_service.child_log_agent
\* before their try block.
PlannerCall(c, entry) ==
    /\ adapter = "planner"
    /\ calls[c].pc = "idle"
    /\ \E order \in DirOrders, fc0 \in FaultsOf(TRUE, dbOpen) :
       \E fc1 \in AutoLoadFaults(fc0), fe \in AutoLoadFaults(fc0),
          fc2 \in AutoLoadFaults(fc0) :
        LET rdy == EnsureRagReady(config, ragInit, coll, dbOpen, disk, kbExists,
                                  order, fc0, fc1, fe, fc2)
        IN  \E retrieval \in (IF rdy.ready THEN RetrievalOutcomes(rdy.coll)
                              ELSE {NoRetrieval}) :
            LET rag_context == rdy.ready /\ ~retrieval.raised
                started == Started(c, entry, rdy, retrieval)
            IN  /\ Len(rdy.coll) <= MaxDocs
                /\ coll' = rdy.coll
                /\ dbOpen' = rdy.open
                /\ ragInit' = rdy.init
                /\ IF rag_context
                   THEN IF "child_log_agent" \notin LogGenerationServiceAttrs
                        THEN \* AttributeError, raised to the caller of the entry
                             \* point: the except clause of RAGService, which
                             \* awaits the generation of a fresh LogGenerationService
                             /\ agent' = agent
                             /\ calls' = Begun(c, [started EXCEPT !.pc = "fallback_wait",
                                                     !.raised = TRUE, !.aug_failed = TRUE,
                                                     !.fallback_called = TRUE])
                        ELSE /\ Len(agent.instruction) < MaxInstructionLen
                             /\ agent' = [agent EXCEPT !.instruction = @ \o ContextOf(c)]
                             /\ calls' = Begun(c, [started EXCEPT !.pc = "enhanced_wait",
                                                     !.augmented = TRUE,
                                                     !.orig = agent.instruction])
                   ELSE /\ agent' = agent
                        /\ calls' = Begun(c, [started EXCEPT !.pc = "plain_wait",
                                                !.plain_called = TRUE])
    /\ UNCHANGED <<diskVars, lload, retrieverVars, adapter, config>>

GenerateInitialLog(c) == PlannerCall(c, "generate_initial_log")

GenerateFollowupLog(c) == PlannerCall(c, "generate_followup_log")

\* The awaited generation call builds its request: the runner reads the
\* instruction the agent holds at that moment.
GenerationReads(c) ==
    /\ calls[c].pc \in Waits
    /\ calls[c].used = <<>>
    /\ calls' = [calls EXCEPT ![c].used = agent.instruction]
    /\ UNCHANGED <<loaderVars, retrieverVars, adapter, config, ragInit, agent>>

\* The generation call awaited by the adapter returns or raises; on the
\* augmented path the finally clause then runs.  The entry point tags the
\* result; an exception leaves the entry point, and for the planner reaches
\* the except clause of RAGService, which awaits the fallback generation.
GenerationReturns(c) ==
    /\ calls[c].pc \in {"enhanced_wait", "plain_wait"}
    /\ \E outcome \in {"ok", "raise"} :
        LET after == IF calls[c].pc = "enhanced_wait"
                     THEN RestoreInstruction(agent, calls[c].orig)
                     ELSE agent
            caught == outcome = "raise" /\ adapter = "planner"
            tagged == IF adapter = "planner"
                      THEN PlannerResult(calls[c].retrieved, calls[c].found)
                      ELSE ChatbotResult(calls[c].augmented, calls[c].found)
        IN  /\ outcome = "ok" => calls[c].used # <<>>
            /\ agent' = after
            /\ calls' = [calls EXCEPT ![c] =
                  [@ EXCEPT !.pc = IF caught THEN "fallback_wait" ELSE "done",
                            !.raised = (outcome = "raise"),
                            !.aug_failed = (outcome = "raise" /\ calls[c].augmented),
                            !.rag_enhanced = (outcome = "ok" /\ calls[c].augmented),
                            !.fallback_called = caught,
                            !.used = IF caught THEN <<>> ELSE @,
                            !.post = after,
                            !.result = IF outcome = "ok" THEN tagged
                                       ELSE IF caught THEN NoResult
                                       ELSE ExceptionResult]]
    /\ UNCHANGED <<loaderVars, retrieverVars, adapter, config, ragInit>>

\* The fallback generation awaited by RAGService returns its untagged
\* dictionary, or raises to the caller of RAGService.
FallbackReturns(c) ==
    /\ calls[c].pc = "fallback_wait"
    /\ \E outcome \in {"ok", "raise"} :
        /\ outcome = "ok" => calls[c].used # <<>>
        /\ calls' = [calls EXCEPT ![c] =
              [@ EXCEPT !.pc = "done", !.post = agent,
                        !.result = IF outcome = "ok" THEN FallbackResult
                                   ELSE ExceptionResult]]
    /\ UNCHANGED <<loaderVars, retrieverVars, adapter, config, ragInit, agent>>

\* The caller takes the result or the exception; its next call may follow.
CallerReceives(c) ==
    /\ calls[c].pc = "done"
    /\ calls' = [calls EXCEPT ![c] = NoAdapterCall]
    /\ UNCHANGED <<loaderVars, retrieverVars, adapter, config, ragInit, agent>>

AdapterColls == {<<>>, <<PassageA, PassageC>>}
AdapterDisks == {{}, {"diet.txt"}}

InitAdapter ==
    /\ coll \in AdapterColls
    /\ dbOpen = FALSE
    /\ disk \in AdapterDisks
    /\ kbExists = TRUE
    /\ lload = NoLoad
    /\ rcall = NoCall
    /\ rdone = NoGroup
    /\ adapter \in {"planner", "chatbot"}
    /\ config \in [use_rag : BOOLEAN, auto_load : BOOLEAN]
    /\ adapter = "chatbot" => config = [use_rag |-> TRUE, auto_load |-> TRUE]
    /\ ragInit = FALSE
    /\ agent = IF adapter = "planner"
               THEN [created |-> TRUE, instruction |-> BaseInstruction]
               ELSE NoAgent
    /\ calls = [c \in Callers |-> NoAdapterCall]

NextAdapter ==
    \E c \in Callers :
        \/ ChatWithMedicalContext(c)
        \/ GenerateInitialLog(c)
        \/ GenerateFollowupLog(c)
        \/ GenerationReads(c)
        \/ GenerationReturns(c)
        \/ FallbackReturns(c)
        \/ CallerReceives(c)

SpecAdapter == InitAdapter /\ [][NextAdapter]_vars

TypeAdapter ==
    /\ Len(agent.instruction) <= MaxInstructionLen
    /\ \A c \in Callers : calls[c].found <= MaxFound

----------------------------------------------------------------------------
(* Claims about the enhanced adapters, checked under SpecAdapter *)

\* C8: an adapter call that ran with no other call beside it, on an agent
\* that existed when it began, leaves the agent's instruction as it found
\* it, whether its generation call returned or raised.
C8_InstructionRestored ==
    \A c \in Callers :
        calls[c].pc = "done" /\ ~calls[c].overlapped /\ calls[c].pre.created =>
            calls[c].post = calls[c].pre

\* C8 witness: two calls that each ran alone on the augmented path, the
\* first ended by an exception of its generation call, the second by its
\* return.
C8_Witness ==
    /\ calls[1].pc = "done" /\ calls[1].augmented /\ calls[1].raised
    /\ ~calls[1].overlapped /\ calls[1].post = calls[1].pre
    /\ calls[2].pc = "done" /\ calls[2].augmented /\ ~calls[2].raised
    /\ ~calls[2].overlapped /\ calls[2].used = BaseInstruction \o ContextOf(2)

\* C9: whenever no call is suspended at its generation call the shared
\* agent holds the instruction it was created with, and no generation call
\* reads an instruction holding the context block of another call.
C9_RestoredUnderOverlap ==
    /\ (agent.created /\ \A c \in Callers : calls[c].pc \notin Waits) =>
            agent.instruction = BaseInstruction
    /\ \A c \in Callers : \A i \in DOMAIN calls[c].used :
            calls[c].used[i] \in {0, c}

\* C10: a call whose retrieval raised, or whose augmented generation
\* failed, makes the unaugmented generation call and does not pass the
\* failure of the augmented path on to its caller.
C10_Fallback ==
    \A c \in Callers :
        calls[c].pc = "done" /\ (calls[c].retrieval_raised \/ calls[c].aug_failed) =>
            /\ calls[c].plain_called
            /\ ~(calls[c].raised /\ calls[c].aug_failed)

\* C11: a call augments the instruction only when its retrieval found at
\* least one passage, a result tagged rag_enhanced counts at least one
\* document, and a call whose retrieval returned zero passages makes the
\* unaugmented generation call.
C11_AugmentOnlyWithEvidence ==
    \A c \in Callers :
        /\ calls[c].augmented => calls[c].found >= 1
        /\ calls[c].result.rag_enhanced => calls[c].result.documents >= 1
        /\ calls[c].retrieved /\ calls[c].found = 0 => calls[c].plain_called

PlannerEntries == {"generate_initial_log", "generate_followup_log"}

\* C12: a finished planner call that was made with RAG ready and whose
\* retrieval returned at least one passage has made its generation call
\* with the augmented instruction and, unless that generation failed, has
\* returned a result tagged rag_enhanced with a document count above zero.
C12_AugmentWhenEvidence ==
    \A c \in Callers :
        /\ calls[c].pc = "done" /\ calls[c].entry \in PlannerEntries
        /\ calls[c].ready /\ calls[c].retrieved /\ calls[c].found >= 1
        => /\ calls[c].augmented
           /\ ~calls[c].aug_failed =>
                 calls[c].result.rag_enhanced /\ calls[c].result.documents > 0

\* C13: every result dictionary a caller receives, the one of a fallback
\* after a failure included, carries the keys rag_enhanced and
\* rag_documents_found.
C13_ProvenanceTags ==
    \A c \in Callers :
        calls[c].pc = "done" /\ calls[c].result.kind = "dict" =>
            {"rag_enhanced", "rag_documents_found"} \subseteq calls[c].result.keys

\* C20: every chat_with_medical_context call that ends hands its caller a
\* result dictionary, also when it is the first operation on the chatbot
\* (no agent created yet) and retrieval found a passage.
C20_ChatAlwaysReturns ==
    \A c \in Callers :
        calls[c].pc = "done" /\ calls[c].entry = "chat_with_medical_context" =>
            calls[c].result.kind = "dict"

----------------------------------------------------------------------------
(* The readiness latch of the enhanced adapters *)

\* The _ensure_rag_ready or _ensure_medical_rag_ready call that a generate,
\* chat or search call of caller c starts with, recorded with the flag
\* before and after it.
EnsureRagReadyCall(c) ==
    /\ adapter \in {"planner", "chatbot"}
    /\ \E order \in DirOrders, fc0 \in FaultsOf(TRUE, dbOpen) :
       \E fc1 \in AutoLoadFaults(fc0), fe \in AutoLoadFaults(fc0),
          fc2 \in AutoLoadFaults(fc0) :
        LET rdy == EnsureRagReady(config, ragInit, coll, dbOpen, disk, kbExists,
                                  order, fc0, fc1, fe, fc2)
        IN  /\ Len(rdy.coll) <= MaxDocs
            /\ coll' = rdy.coll
            /\ dbOpen' = rdy.open
            /\ ragInit' = rdy.init
            /\ calls' = [calls EXCEPT ![c] =
                  [NoAdapterCall EXCEPT !.entry = "_ensure_rag_ready",
                                        !.ready = rdy.ready,
                                        !.init_before = ragInit,
                                        !.init_after = rdy.init,
                                        !.empty_before = (coll = <<>>),
                                        !.auto_loaded = rdy.loaded,
                                        !.loaded_count = rdy.loaded_count]]
    /\ UNCHANGED <<diskVars, lload, retrieverVars, adapter, config, agent>>

\* load_knowledge_base and load_medical_knowledge: a manual load, which sets
\* the flag whatever count it loaded unless the load raises; fe is the fault
\* of its insert.
LoadKnowledgeBase ==
    /\ adapter \in {"planner", "chatbot"}
    /\ config.use_rag
    /\ \E force_reload \in BOOLEAN, order \in DirOrders, fe \in {"ok", "op_fault"} :
        LET out == LoadAllOutcome(coll, dbOpen, disk, kbExists, force_reload, order,
                                  "ok", "ok", fe, "ok")
        IN  /\ Len(out.coll) <= MaxDocs
            /\ coll' = out.coll
            /\ dbOpen' = out.open
            /\ ragInit' = (ragInit \/ ~out.log.raised)
    /\ UNCHANGED <<diskVars, lload, retrieverVars, adapter, config, agent, calls>>

InitLatch ==
    /\ coll \in AdapterColls
    /\ dbOpen = FALSE
    /\ disk \in AdapterDisks
    /\ kbExists = TRUE
    /\ lload = NoLoad
    /\ rcall = NoCall
    /\ rdone = NoGroup
    /\ adapter \in {"planner", "chatbot"}
    /\ config \in [use_rag : BOOLEAN, auto_load : BOOLEAN]
    /\ adapter = "chatbot" => config = [use_rag |-> TRUE, auto_load |-> TRUE]
    /\ ragInit = FALSE
    /\ agent = NoAgent
    /\ calls = [c \in Callers |-> NoAdapterCall]

NextLatch ==
    \/ EnsureRagReadyCall(1)
    \/ LoadKnowledgeBase
    \/ StoreDelete

SpecLatch == InitLatch /\ [][NextLatch]_vars

\* C27: the initialization flag only ever goes from false to true; a
\* readiness check that finds it set answers True without loading, even
\* over a collection that has become empty, and a check that answered True
\* has set it; an auto-load that yields 0 passages leaves the flag false
\* and the check answering False, and a check that finds the flag false and
\* the collection empty, with auto-loading configured, attempts the load.
C27_InitializationLatch ==
    /\ [][ragInit => ragInit']_vars
    /\ [](\A c \in Callers :
            calls[c].entry = "_ensure_rag_ready" =>
                /\ calls[c].init_before =>
                      calls[c].ready /\ ~calls[c].auto_loaded /\ calls[c].init_after
                /\ calls[c].ready => calls[c].init_after /\ ragInit
                /\ calls[c].auto_loaded /\ calls[c].loaded_count = 0 =>
                      ~calls[c].ready /\ ~calls[c].init_after
                /\ /\ config.use_rag /\ config.auto_load
                   /\ ~calls[c].init_before /\ calls[c].empty_before
                   => calls[c].auto_loaded)

\* C27 witness: a readiness check answered True without loading over a
\* collection that had become empty after the flag was set.
C27_Witness ==
    \E c \in Callers :
        /\ calls[c].entry = "_ensure_rag_ready"
        /\ calls[c].init_before /\ calls[c].empty_before
        /\ calls[c].ready /\ ~calls[c].auto_loaded

----------------------------------------------------------------------------
(* DocumentPreprocessor: the content-type classifier *)

ResearchIndicators ==
    {"study", "research", "participants", "methodology", "results", "conclusion"}
ActivityIndicators ==
    {"activity", "game", "play", "exercise", "practice", "instructions"}
GuidelineIndicators ==
    {"guideline", "recommendation", "should", "important", "key points"}

\* The words of the classified texts: two indicators of each set and a word
\* that is no indicator.
TextWords == {"study", "results", "game", "play", "should", "important", "child"}

\* sum(1 for indicator in indicators if indicator in text_lower): the
\* indicators that occur in the text, each counted once.
IndicatorScore(indicators, text) ==
    Cardinality({indicator \in indicators : indicator \in Range(text)})

\* The keys of the scores dict in the order the dict literal lists them.
ScoreKeys == <<"research", "activity", "guideline">>
TypeScores(text) ==
    [key \in Range(ScoreKeys) |->
        CASE key = "research" -> IndicatorScore(ResearchIndicators, text)
          [] key = "activity" -> IndicatorScore(ActivityIndicators, text)
          [] key = "guideline" -> IndicatorScore(GuidelineIndicators, text)]

\* primary_type is max(scores, key=scores.get): the first key, in the order
\* of the dict, that no key outscores.
ClassifyContentType(text) ==
    LET scores == TypeScores(text)
        first == CHOOSE i \in DOMAIN ScoreKeys :
                    /\ \A j \in DOMAIN ScoreKeys :
                           scores[ScoreKeys[j]] <= scores[ScoreKeys[i]]
                    /\ \A j \in 1..(i - 1) :
                           scores[ScoreKeys[j]] < scores[ScoreKeys[i]]
        primary_type == ScoreKeys[first]
    IN  IF scores[primary_type] = 0 THEN "general" ELSE primary_type

\* One call of _classify_content_type on the text held in rcall.
ClassifyContentTypeCall ==
    /\ rdone.group = "none"
    /\ rdone' = [NoGroup EXCEPT !.group = "content_type",
                                !.content_type = ClassifyContentType(rcall.query)]
    /\ UNCHANGED <<storeVars, diskVars, lload, rcall, adapterVars>>

InitClassify ==
    /\ coll = <<>>
    /\ dbOpen = FALSE
    /\ disk = {}
    /\ kbExists = TRUE
    /\ lload = NoLoad
    /\ rcall \in {[NoCall EXCEPT !.entry = "_classify_content_type", !.query = text] :
                     text \in UNION {[1..n -> TextWords] : n \in 0..MaxWords}}
    /\ rdone = NoGroup
    /\ NoAdapter

SpecClassify == InitClassify /\ [][ClassifyContentTypeCall]_vars

\* C28: the classifier returns the keyword set whose count is strictly the
\* highest, and 'general' when all three counts are zero or when the highest
\* count is shared by two or more sets.
C28_ContentType ==
    rdone.group = "content_type" =>
        LET scores == TypeScores(rcall.query)
            highest == {key \in Range(ScoreKeys) :
                           \A other \in Range(ScoreKeys) : scores[other] <= scores[key]}
        IN  /\ (Cardinality(highest) = 1 /\ \E key \in highest : scores[key] > 0) =>
                   rdone.content_type \in highest
            /\ (\A key \in Range(ScoreKeys) : scores[key] = 0) =>
                   rdone.content_type = "general"
            /\ Cardinality(highest) >= 2 => rdone.content_type = "general"

====
